---- MODULE Spec2Model ----
(***************************************************************************)
(* Verification model of the hinge simulator's four-bar kinematic core:    *)
(* FourBarLinkageCalculator (geometry kernel) and DesignerUI (solver,      *)
(* range finder, drag / reset / import handlers).                          *)
(*                                                                         *)
(* Numbers.  The program computes in IEEE doubles.  The model computes in  *)
(* fixed point: a length or coordinate is an integer count of 1/SCALE      *)
(* units, an angle is an integer count of 1/AngleScale radians, a cosine   *)
(* or sine is an integer count of 1/TrigScale.  Every operation rounds to  *)
(* nearest, as a double operation does, only coarser.                      *)
(*                                                                         *)
(* Form.  A value the code computes once and uses several times (a const,  *)
(* the result of a call) is the parameter of an operator applied to it,    *)
(* so that it is computed once here too.                                   *)
(***************************************************************************)
EXTENDS Integers, Sequences, FiniteSets, TLC

(***************************************************************************)
(* Number representation                                                   *)
(***************************************************************************)
SCALE == 16

AngleScale == 10 ^ 5

TrigScale == 2 ^ 15

\* Math.PI, in angle units of 1e-5 rad
Pi == 314159

TwoPi == 2 * Pi

HalfPi == Pi \div 2

\* 0.0001 rad, the range finder's precision threshold
Precision == AngleScale \div (10 ^ 4)

\* 1e-10, the orientation tolerance: below the model's resolution, so only an
\* exact zero is within it
OrientEps == 1

Abs(v) == IF v < 0 THEN -v ELSE v

Max(a, b) == IF a >= b THEN a ELSE b

Min(a, b) == IF a <= b THEN a ELSE b

\* a / b rounded to nearest (b > 0)
RDiv(a, b) == IF a >= 0 THEN (2 * a + b) \div (2 * b) ELSE -((2 * (-a) + b) \div (2 * b))

\* a / 2 rounded toward zero
Half(a) == IF a >= 0 THEN a \div 2 ELSE -((-a) \div 2)

RECURSIVE NewtonSqrt(_, _)
NewtonSqrt(n, r) ==
    LET nr == (r + n \div r) \div 2
    IN  IF nr >= r THEN r ELSE NewtonSqrt(n, nr)

\* floor(sqrt(n))
ISqrt(n) ==
    IF n <= 0 THEN 0
    ELSE IF n < 2 ^ 16 THEN NewtonSqrt(n, 2 ^ 8)
    ELSE IF n < 2 ^ 24 THEN NewtonSqrt(n, 2 ^ 12)
    ELSE IF n < 2 ^ 28 THEN NewtonSqrt(n, 2 ^ 14)
    ELSE NewtonSqrt(n, 46340)

\* r or r + 1, whichever is nearer to sqrt(n), for r = floor(sqrt(n))
NearestRoot(n, r) == IF n - r * r > r THEN r + 1 ELSE r

\* Math.sqrt, rounded to nearest
Sqrt(n) == NearestRoot(n, ISqrt(n))

\* cosine and sine of an angle x in [0, Pi/4], by their Taylor polynomials
TaylorX(x) == RDiv(x * (TrigScale \div 8), AngleScale \div 8)

\* a * b of two numbers in 1/TrigScale
TMul(a, b) == RDiv(a * b, TrigScale)

\* 1 - x^2/2! + x^4/4! - x^6/6!, given x^2 and x^4
CosSeries(x2, x4) == TrigScale - RDiv(x2, 2) + RDiv(x4, 24) - RDiv(TMul(x4, x2), 720)

CosOfSquare(x2) == CosSeries(x2, TMul(x2, x2))

\* x - x^3/3! + x^5/5! - x^7/7!, given x, x^2, x^3 and x^5
SinSeries(xr, x2, x3, x5) == xr - RDiv(x3, 6) + RDiv(x5, 120) - RDiv(TMul(x5, x2), 5040)

SinOfCube(xr, x2, x3) == SinSeries(xr, x2, x3, TMul(x3, x2))

SinOfSquare(xr, x2) == SinOfCube(xr, x2, TMul(xr, x2))

SinOfX(xr) == SinOfSquare(xr, TMul(xr, xr))

SquareOf(xr) == TMul(xr, xr)

TaylorCos(x) == CosOfSquare(SquareOf(TaylorX(x)))

TaylorSin(x) == SinOfX(TaylorX(x))

\* cosine and sine of an angle in [0, Pi/2]
QuadCos(x) == IF 2 * x <= HalfPi THEN TaylorCos(x) ELSE TaylorSin(HalfPi - x)

QuadSin(x) == IF 2 * x <= HalfPi THEN TaylorSin(x) ELSE TaylorCos(HalfPi - x)

\* Math.cos and Math.sin of any angle
Cos(a) ==
    LET t == a % TwoPi
    IN  IF t <= HalfPi THEN QuadCos(t)
        ELSE IF t <= Pi THEN -QuadCos(Pi - t)
        ELSE IF t <= Pi + HalfPi THEN -QuadCos(t - Pi)
        ELSE QuadCos(TwoPi - t)

Sin(a) ==
    LET t == a % TwoPi
    IN  IF t <= HalfPi THEN QuadSin(t)
        ELSE IF t <= Pi THEN QuadSin(Pi - t)
        ELSE IF t <= Pi + HalfPi THEN -QuadSin(t - Pi)
        ELSE -QuadSin(TwoPi - t)

\* the angle in [lo, hi] within [0, Pi/2] at which the direction (dx, dy), dx, dy >= 0,
\* lies, by bisection on the sign of the cross product
RECURSIVE AtanBisect(_, _, _, _)
AtanBisect(dy, dx, lo, hi) ==
    IF hi - lo <= 1
    THEN IF Abs(dy * QuadCos(lo) - dx * QuadSin(lo)) <= Abs(dy * QuadCos(hi) - dx * QuadSin(hi))
         THEN lo ELSE hi
    ELSE LET mid == (lo + hi) \div 2
         IN  IF dy * QuadCos(mid) - dx * QuadSin(mid) >= 0
             THEN AtanBisect(dy, dx, mid, hi)
             ELSE AtanBisect(dy, dx, lo, mid)

\* Math.atan2(dy, dx), in (-Pi, Pi]
Atan2(dy, dx) ==
    IF dx = 0 /\ dy = 0 THEN 0
    ELSE LET t == AtanBisect(Abs(dy), Abs(dx), 0, HalfPi)
         IN  IF dx >= 0 THEN (IF dy >= 0 THEN t ELSE -t)
             ELSE (IF dy >= 0 THEN Pi - t ELSE t - Pi)

(***************************************************************************)
(* FourBarLinkageCalculator: the geometry kernel                           *)
(***************************************************************************)
\* JavaScript's null / undefined
Null == [null |-> TRUE]

Pt(px, py) == [x |-> px, y |-> py]

distance(p1, p2) == Sqrt((p2.x - p1.x) * (p2.x - p1.x) + (p2.y - p1.y) * (p2.y - p1.y))

\* 0 collinear, 1 clockwise, 2 counterclockwise
orientation(p, q, r) ==
    LET val == (q.y - p.y) * (r.x - q.x) - (q.x - p.x) * (r.y - q.y)
    IN  IF Abs(val) < OrientEps THEN 0
        ELSE IF val > 0 THEN 1 ELSE 2

onSegment(p, q, r) ==
    /\ q.x <= Max(p.x, r.x) /\ q.x >= Min(p.x, r.x)
    /\ q.y <= Max(p.y, r.y) /\ q.y >= Min(p.y, r.y)

\* segmentsIntersect without its four collinear special cases
segmentsIntersectGeneralOnly(p1, q1, p2, q2) ==
    /\ orientation(p1, q1, p2) # orientation(p1, q1, q2)
    /\ orientation(p2, q2, p1) # orientation(p2, q2, q1)

segmentsIntersect(p1, q1, p2, q2) ==
    LET o1 == orientation(p1, q1, p2)
        o2 == orientation(p1, q1, q2)
        o3 == orientation(p2, q2, p1)
        o4 == orientation(p2, q2, q1)
    IN  \/ (o1 # o2 /\ o3 # o4)
        \/ (o1 = 0 /\ onSegment(p1, p2, q1))
        \/ (o2 = 0 /\ onSegment(p1, q2, q1))
        \/ (o3 = 0 /\ onSegment(p2, p1, q2))
        \/ (o4 = 0 /\ onSegment(p2, q1, q2))

\* circleCircleIntersection with the offset h laid along the line of centres instead
\* of across it
circleCircleIntersectionAlong(p1, r1, p2, r2) ==
    LET dx == p2.x - p1.x
        dy == p2.y - p1.y
        \* the two points at h from the foot (x2, y2) of the common chord
        points(d, x2, y2, h) ==
            LET intersection1 == Pt(x2 + RDiv(h * dx, d), y2 + RDiv(h * dy, d))
                intersection2 == Pt(x2 - RDiv(h * dx, d), y2 - RDiv(h * dy, d))
            IN  IF d = r1 + r2 \/ d = Abs(r1 - r2)
                THEN <<intersection1>>
                ELSE <<intersection1, intersection2>>
        chord(d, a) ==
            points(d, p1.x + RDiv(a * dx, d), p1.y + RDiv(a * dy, d),
                   Sqrt(Max(0, r1 * r1 - a * a)))
        atDistance(d) ==
            IF d > r1 + r2 \/ d < Abs(r1 - r2) \/ (d = 0 /\ r1 # r2) THEN <<>>
            ELSE IF d = 0 THEN <<Null>>
            ELSE chord(d, RDiv(r1 * r1 - r2 * r2 + d * d, 2 * d))
    IN  atDistance(Sqrt(dx * dx + dy * dy))

\* the list of intersection points: empty where the code returns null, <<Null>>
\* where it returns one point of NaN coordinates (d = 0 and r1 = r2)
circleCircleIntersection(p1, r1, p2, r2) ==
    LET dx == p2.x - p1.x
        dy == p2.y - p1.y
        \* the two points at h from the foot (x2, y2) of the common chord
        points(d, x2, y2, h) ==
            LET intersection1 == Pt(x2 + RDiv(h * dy, d), y2 - RDiv(h * dx, d))
                intersection2 == Pt(x2 - RDiv(h * dy, d), y2 + RDiv(h * dx, d))
            IN  IF d = r1 + r2 \/ d = Abs(r1 - r2)
                THEN <<intersection1>>
                ELSE <<intersection1, intersection2>>
        chord(d, a) ==
            points(d, p1.x + RDiv(a * dx, d), p1.y + RDiv(a * dy, d),
                   Sqrt(Max(0, r1 * r1 - a * a)))
        atDistance(d) ==
            IF d > r1 + r2 \/ d < Abs(r1 - r2) \/ (d = 0 /\ r1 # r2) THEN <<>>
            ELSE IF d = 0 THEN <<Null>>
            ELSE chord(d, RDiv(r1 * r1 - r2 * r2 + d * d, 2 * d))
    IN  atDistance(Sqrt(dx * dx + dy * dy))

(***************************************************************************)
(* DesignerUI: the kinematic solver                                        *)
(***************************************************************************)
\* validSolutions without the crossing gate of locked mode
validSolutionsNoCrossing(A, newB, D, intersections, initialOrientations, hingeUnlocked) ==
    SelectSeq(intersections, LAMBDA p:
        IF hingeUnlocked THEN TRUE
        ELSE /\ p # Null
             /\ (initialOrientations # Null =>
                    /\ orientation(A, D, newB) = initialOrientations.adb
                    /\ orientation(p, A, D) = initialOrientations.cda))

\* validSolutions with the crossing gate applied in both modes
validSolutionsAlwaysCrossed(A, newB, D, intersections, initialOrientations, hingeUnlocked) ==
    SelectSeq(intersections, LAMBDA p:
        /\ p # Null
        /\ segmentsIntersect(A, newB, p, D)
        /\ (hingeUnlocked \/ initialOrientations = Null
               \/ (/\ orientation(A, D, newB) = initialOrientations.adb
                   /\ orientation(p, A, D) = initialOrientations.cda)))

\* the candidates that pass the lock-mode gates, in order
validSolutions(A, newB, D, intersections, initialOrientations, hingeUnlocked) ==
    SelectSeq(intersections, LAMBDA p:
        IF hingeUnlocked THEN TRUE
        ELSE /\ p # Null
             /\ segmentsIntersect(A, newB, p, D)
             /\ (initialOrientations # Null =>
                    /\ orientation(A, D, newB) = initialOrientations.adb
                    /\ orientation(p, A, D) = initialOrientations.cda))

\* validSolutions.sort by distance to ref, then [0]
closestTo(sols, ref) ==
    IF distance(sols[2], ref) < distance(sols[1], ref) THEN sols[2] ELSE sols[1]

\* The solver storing the first candidate in lastValidC before the gates are applied
calculateAnimatedStateForAngleEarlyStore(ui, angleOffset) ==
    LET fail == [result |-> Null, lastValidC |-> ui.lastValidC]
        A == ui.pivots.A
        B == ui.pivots.B
        C == ui.pivots.C
        D == ui.pivots.D
        return(newB, chosenSolution) ==
            [result |-> [A |-> A, B |-> newB, C |-> chosenSolution, D |-> D],
             lastValidC |-> chosenSolution]
        choose(newB, intersections, valid) ==
            IF Len(valid) = 0 THEN [result |-> Null, lastValidC |-> intersections[1]]
            ELSE IF Len(valid) = 1 THEN return(newB, valid[1])
            ELSE IF ui.lastValidC # Null THEN return(newB, closestTo(valid, ui.lastValidC))
            ELSE return(newB, closestTo(valid, C))
        filter(newB, intersections) ==
            IF Len(intersections) = 0 THEN fail
            ELSE choose(newB, intersections,
                        validSolutions(A, newB, D, intersections,
                                       ui.initialOrientations, ui.hingeUnlocked))
        drive(l_ab, l_cd, l_bc, newAngle) ==
            LET newB == Pt(A.x + RDiv(l_ab * Cos(newAngle), TrigScale),
                           A.y + RDiv(l_ab * Sin(newAngle), TrigScale))
            IN  filter(newB, circleCircleIntersection(newB, l_bc, D, l_cd))
        links(l_ab, l_cd, l_bc) ==
            IF l_ab < SCALE \/ l_cd < SCALE \/ l_bc < SCALE THEN fail
            ELSE drive(l_ab, l_cd, l_bc, ui.initialInputAngle.rad + angleOffset)
    IN  IF ui.initialInputAngle = Null THEN fail
        ELSE IF A = Null \/ B = Null \/ C = Null \/ D = Null THEN fail
        ELSE links(distance(A, B), distance(C, D), distance(B, C))

\* The solver without the test for a degenerate linkage
calculateAnimatedStateForAngleAnyLength(ui, angleOffset) ==
    LET fail == [result |-> Null, lastValidC |-> ui.lastValidC]
        A == ui.pivots.A
        B == ui.pivots.B
        C == ui.pivots.C
        D == ui.pivots.D
        return(newB, chosenSolution) ==
            [result |-> [A |-> A, B |-> newB, C |-> chosenSolution, D |-> D],
             lastValidC |-> chosenSolution]
        choose(newB, intersections, valid) ==
            IF Len(valid) = 0 THEN fail
            ELSE IF Len(valid) = 1 THEN return(newB, valid[1])
            ELSE IF ui.lastValidC # Null THEN return(newB, closestTo(valid, ui.lastValidC))
            ELSE return(newB, closestTo(valid, C))
        filter(newB, intersections) ==
            IF Len(intersections) = 0 THEN fail
            ELSE choose(newB, intersections,
                        validSolutions(A, newB, D, intersections,
                                       ui.initialOrientations, ui.hingeUnlocked))
        drive(l_ab, l_cd, l_bc, newAngle) ==
            LET newB == Pt(A.x + RDiv(l_ab * Cos(newAngle), TrigScale),
                           A.y + RDiv(l_ab * Sin(newAngle), TrigScale))
            IN  filter(newB, circleCircleIntersection(newB, l_bc, D, l_cd))
        links(l_ab, l_cd, l_bc) ==
            IF FALSE THEN fail
            ELSE drive(l_ab, l_cd, l_bc, ui.initialInputAngle.rad + angleOffset)
    IN  IF ui.initialInputAngle = Null THEN fail
        ELSE IF A = Null \/ B = Null \/ C = Null \/ D = Null THEN fail
        ELSE links(distance(A, B), distance(C, D), distance(B, C))

\* The solver returning the chosen candidate without storing it in lastValidC
calculateAnimatedStateForAngleNoStore(ui, angleOffset) ==
    LET fail == [result |-> Null, lastValidC |-> ui.lastValidC]
        A == ui.pivots.A
        B == ui.pivots.B
        C == ui.pivots.C
        D == ui.pivots.D
        return(newB, chosenSolution) ==
            [result |-> [A |-> A, B |-> newB, C |-> chosenSolution, D |-> D],
             lastValidC |-> ui.lastValidC]
        choose(newB, intersections, valid) ==
            IF Len(valid) = 0 THEN fail
            ELSE IF Len(valid) = 1 THEN return(newB, valid[1])
            ELSE IF ui.lastValidC # Null THEN return(newB, closestTo(valid, ui.lastValidC))
            ELSE return(newB, closestTo(valid, C))
        filter(newB, intersections) ==
            IF Len(intersections) = 0 THEN fail
            ELSE choose(newB, intersections,
                        validSolutions(A, newB, D, intersections,
                                       ui.initialOrientations, ui.hingeUnlocked))
        drive(l_ab, l_cd, l_bc, newAngle) ==
            LET newB == Pt(A.x + RDiv(l_ab * Cos(newAngle), TrigScale),
                           A.y + RDiv(l_ab * Sin(newAngle), TrigScale))
            IN  filter(newB, circleCircleIntersection(newB, l_bc, D, l_cd))
        links(l_ab, l_cd, l_bc) ==
            IF l_ab < SCALE \/ l_cd < SCALE \/ l_bc < SCALE THEN fail
            ELSE drive(l_ab, l_cd, l_bc, ui.initialInputAngle.rad + angleOffset)
    IN  IF ui.initialInputAngle = Null THEN fail
        ELSE IF A = Null \/ B = Null \/ C = Null \/ D = Null THEN fail
        ELSE links(distance(A, B), distance(C, D), distance(B, C))

\* Returns [result |-> the state or Null, lastValidC |-> this.lastValidC afterwards].
\* ui has the fields pivots, initialInputAngle, initialOrientations, lastValidC,
\* hingeUnlocked of the DesignerUI object.
calculateAnimatedStateForAngle(ui, angleOffset) ==
    LET fail == [result |-> Null, lastValidC |-> ui.lastValidC]
        A == ui.pivots.A
        B == ui.pivots.B
        C == ui.pivots.C
        D == ui.pivots.D
        return(newB, chosenSolution) ==
            [result |-> [A |-> A, B |-> newB, C |-> chosenSolution, D |-> D],
             lastValidC |-> chosenSolution]
        choose(newB, intersections, valid) ==
            IF Len(valid) = 0 THEN fail
            ELSE IF Len(valid) = 1 THEN return(newB, valid[1])
            ELSE IF ui.lastValidC # Null THEN return(newB, closestTo(valid, ui.lastValidC))
            ELSE return(newB, closestTo(valid, C))
        filter(newB, intersections) ==
            IF Len(intersections) = 0 THEN fail
            ELSE choose(newB, intersections,
                        validSolutions(A, newB, D, intersections,
                                       ui.initialOrientations, ui.hingeUnlocked))
        drive(l_ab, l_cd, l_bc, newAngle) ==
            LET newB == Pt(A.x + RDiv(l_ab * Cos(newAngle), TrigScale),
                           A.y + RDiv(l_ab * Sin(newAngle), TrigScale))
            IN  filter(newB, circleCircleIntersection(newB, l_bc, D, l_cd))
        links(l_ab, l_cd, l_bc) ==
            IF l_ab < SCALE \/ l_cd < SCALE \/ l_bc < SCALE THEN fail
            ELSE drive(l_ab, l_cd, l_bc, ui.initialInputAngle.rad + angleOffset)
    IN  IF ui.initialInputAngle = Null THEN fail
        ELSE IF A = Null \/ B = Null \/ C = Null \/ D = Null THEN fail
        ELSE links(distance(A, B), distance(C, D), distance(B, C))

(***************************************************************************)
(* DesignerUI: the range finder                                            *)
(***************************************************************************)
\* findLimit's loop body taking every probed offset as best, valid or not
findLimitStepKeepsFailed(ui, direction, st) ==
    LET mid == st.low + Half(st.high - st.low)
        narrowed(low, high, n) == [n EXCEPT !.low = low, !.high = high,
                                            !.done = Abs(high - low) < Precision]
        probed(r, ok) ==
            narrowed(IF ok THEN (IF direction > 0 THEN mid ELSE st.low)
                     ELSE (IF direction > 0 THEN st.low ELSE mid),
                     IF ok THEN (IF direction > 0 THEN st.high ELSE mid)
                     ELSE (IF direction > 0 THEN mid ELSE st.high),
                     [st EXCEPT !.best = mid,
                                !.i = st.i + 1,
                                !.lastValidC = r.lastValidC,
                                !.probes = Append(st.probes,
                                    [offset |-> mid, state |-> r.result,
                                     before |-> st.lastValidC, after |-> r.lastValidC])])
        probe(r) == probed(r, r.result # Null)
    IN  IF st.i >= 100 \/ Abs(mid - st.best) < Precision THEN [st EXCEPT !.done = TRUE]
        ELSE probe(calculateAnimatedStateForAngle([ui EXCEPT !.lastValidC = st.lastValidC], mid))

\* One iteration of findLimit's for loop.  st holds the loop's variables low, high,
\* best and i, this.lastValidC, the solver calls made so far (the offset, the state
\* that came back, lastValidC before and after) and whether the loop has ended.
findLimitStep(ui, direction, st) ==
    LET mid == st.low + Half(st.high - st.low)
        narrowed(low, high, n) == [n EXCEPT !.low = low, !.high = high,
                                            !.done = Abs(high - low) < Precision]
        probed(r, ok) ==
            narrowed(IF ok THEN (IF direction > 0 THEN mid ELSE st.low)
                     ELSE (IF direction > 0 THEN st.low ELSE mid),
                     IF ok THEN (IF direction > 0 THEN st.high ELSE mid)
                     ELSE (IF direction > 0 THEN mid ELSE st.high),
                     [st EXCEPT !.best = IF ok THEN mid ELSE st.best,
                                !.i = st.i + 1,
                                !.lastValidC = r.lastValidC,
                                !.probes = Append(st.probes,
                                    [offset |-> mid, state |-> r.result,
                                     before |-> st.lastValidC, after |-> r.lastValidC])])
        probe(r) == probed(r, r.result # Null)
    IN  IF st.i >= 100 \/ Abs(mid - st.best) < Precision THEN [st EXCEPT !.done = TRUE]
        ELSE probe(calculateAnimatedStateForAngle([ui EXCEPT !.lastValidC = st.lastValidC], mid))

RECURSIVE findLimitLoop(_, _, _)
findLimitLoop(ui, direction, st) ==
    IF st.done THEN st ELSE findLimitLoop(ui, direction, findLimitStep(ui, direction, st))

\* findLimit searching two turns in locked mode as well
findLimitTwoTurns(ui, direction, startAngle, lastValidC, probes) ==
    findLimitLoop(ui, direction,
        [low |-> startAngle,
         high |-> startAngle + 2 * TwoPi * direction,
         best |-> startAngle, i |-> 0,
         lastValidC |-> lastValidC, probes |-> probes, done |-> FALSE])

\* findLimit(direction, startAngle), entered with this.lastValidC = lastValidC after
\* the solver calls in probes
findLimit(ui, direction, startAngle, lastValidC, probes) ==
    findLimitLoop(ui, direction,
        [low |-> startAngle,
         high |-> IF ui.hingeUnlocked
                  THEN startAngle + 2 * TwoPi * direction
                  ELSE startAngle + TwoPi * direction,
         best |-> startAngle, i |-> 0,
         lastValidC |-> lastValidC, probes |-> probes, done |-> FALSE])

\* Returns [angleLimits, lastValidC afterwards, probes]
calculateAngleLimits(ui) ==
    LET limits(maxPositive, maxNegative, neg) ==
            LET maxAngle == IF Abs(maxPositive) > Abs(maxNegative)
                            THEN maxPositive ELSE maxNegative
            IN  [angleLimits |-> [min |-> 0, max |-> maxAngle],
                 lastValidC |-> neg.lastValidC,
                 probes |-> neg.probes]
        negative(pos, neg) == limits(pos.best, neg.best, neg)
        positive(pos) == negative(pos, findLimit(ui, -1, 0, pos.lastValidC, pos.probes))
    IN  positive(findLimit(ui, 1, 0, ui.lastValidC, <<>>))

(***************************************************************************)
(* DesignerUI: the object and its methods                                  *)
(*                                                                         *)
(* A method is an operator from the object (a record of its fields) to     *)
(* [ui |-> the object afterwards,                                          *)
(*  calls |-> the solver calls it made from the reference it ends with,    *)
(*  finder |-> Null, or lastValidC before and after its                   *)
(*             calculateAngleLimits call].                                 *)
(***************************************************************************)
\* the canvas element the page hands to the constructor, in units
CanvasWidth == 800

CanvasHeight == 600

\* a point given in units
P(ux, uy) == Pt(ux * SCALE, uy * SCALE)

pivotOrder == <<"A", "D", "B", "C">>

NoPivots == [A |-> Null, B |-> Null, C |-> Null, D |-> Null]

constructor ==
    [pivots              |-> NoPivots,
     initialInputAngle   |-> Null,
     initialOrientations |-> Null,
     lastValidC          |-> Null,
     hingeUnlocked       |-> FALSE,
     animatedState       |-> Null,
     lastResult          |-> Null,
     angleLimits         |-> [min |-> -HalfPi, max |-> HalfPi],
     dragState           |-> [isDragging |-> FALSE, pivotName |-> "A"],
     boxDimensions       |-> [width |-> 900, baseHeight |-> 300, lidHeight |-> 100, lidGap |-> 20],
     lid                 |-> Null]

getBaseRect(ui) ==
    [minX |-> RDiv((CanvasWidth - ui.boxDimensions.width) * SCALE, 2),
     minY |-> (CanvasHeight - ui.boxDimensions.baseHeight - 20) * SCALE,
     maxX |-> RDiv((CanvasWidth + ui.boxDimensions.width) * SCALE, 2),
     maxY |-> (CanvasHeight - 20) * SCALE]

missingPivot(ui) ==
    ui.pivots.A = Null \/ ui.pivots.B = Null \/ ui.pivots.C = Null \/ ui.pivots.D = Null

isInside(pivot, base) ==
    /\ pivot.x >= base.minX /\ pivot.x <= base.maxX
    /\ pivot.y >= base.minY /\ pivot.y <= base.maxY

\* updateAndRender, as far as it changes the object: lastResult.isValid.  Without the
\* four pivots getRelativePivotPositions throws before lastResult is assigned.
updateAndRender(ui) ==
    LET pv == ui.pivots
        baseRect == getBaseRect(ui)
        pivotsValid == isInside(pv.A, baseRect) /\ isInside(pv.D, baseRect)
        isCrossed == segmentsIntersect(pv.A, pv.B, pv.C, pv.D)
    IN  IF missingPivot(ui) THEN ui
        ELSE [ui EXCEPT !.lastResult = [isValid |-> pivotsValid /\ isCrossed]]

storeInitialOrientations(pv) ==
    [adb |-> orientation(pv.A, pv.D, pv.B),
     cda |-> orientation(pv.C, pv.A, pv.D)]

\* this.calculateAngleLimits() as a method: stores the limits, and lastValidC is
\* whatever the probes left
runAngleLimits(ui) ==
    LET store(r) ==
            [ui |-> [ui EXCEPT !.angleLimits = r.angleLimits, !.lastValidC = r.lastValidC],
             calls |-> r.probes,
             finder |-> [before |-> ui.lastValidC, after |-> r.lastValidC]]
    IN  store(calculateAngleLimits(ui))

\* a method's closing this.updateAndRender()
thenRender(r) == [r EXCEPT !.ui = updateAndRender(r.ui)]

\* the lines shared by reset, handleMouseUp and setConfiguration: capture the
\* reference from the pivots, then find the range
captureReference(ui) ==
    LET pv == ui.pivots
    IN  runAngleLimits([ui EXCEPT
            !.initialInputAngle = [rad |-> Atan2(pv.B.y - pv.A.y, pv.B.x - pv.A.x)],
            !.initialOrientations = storeInitialOrientations(pv),
            !.lastValidC = pv.C])

reset(ui) ==
    LET baseRect == getBaseRect(ui)
        lidHeight == ui.boxDimensions.lidHeight * SCALE
        lidDelta == ui.boxDimensions.lidGap * SCALE
        lidCenterX == RDiv(baseRect.minX + baseRect.maxX, 2)
        lidCenterY == baseRect.minY - RDiv(lidHeight, 2) - lidDelta
        u1 == [ui EXCEPT
                 !.lid = [center |-> Pt(lidCenterX, lidCenterY),
                          lidWidth |-> baseRect.maxX - baseRect.minX,
                          lidHeight |-> lidHeight],
                 !.pivots = [A |-> P(250, 500), D |-> P(550, 500),
                             B |-> Pt(lidCenterX + 100 * SCALE, lidCenterY),
                             C |-> Pt(lidCenterX - 100 * SCALE, lidCenterY)],
                 !.animatedState = Null]
    IN  thenRender(captureReference(u1))

RECURSIVE hitTestFrom(_, _, _)
hitTestFrom(ui, m, i) ==
    IF i > Len(pivotOrder) THEN Null
    ELSE LET pivot == ui.pivots[pivotOrder[i]]
         IN  IF pivot # Null /\ distance(m, pivot) < 10 * SCALE
             THEN [pivotName |-> pivotOrder[i]]
             ELSE hitTestFrom(ui, m, i + 1)

hitTest(ui, m) == hitTestFrom(ui, m, 1)

handleMouseDown(ui, m) ==
    LET hitResult == hitTest(ui, m)
    IN  [ui |-> IF hitResult = Null THEN ui
                ELSE [ui EXCEPT !.dragState = [isDragging |-> TRUE,
                                               pivotName |-> hitResult.pivotName]],
         calls |-> <<>>, finder |-> Null]

clamp(v, lo, hi) == Max(lo, Min(hi, v))

handleMouseMove(ui, m) ==
    LET pivotName == ui.dragState.pivotName
        baseRect == getBaseRect(ui)
        lidRect == [minX |-> ui.lid.center.x - RDiv(ui.lid.lidWidth, 2),
                    maxX |-> ui.lid.center.x + RDiv(ui.lid.lidWidth, 2),
                    minY |-> ui.lid.center.y - RDiv(ui.lid.lidHeight, 2),
                    maxY |-> ui.lid.center.y + RDiv(ui.lid.lidHeight, 2)]
        rect == IF pivotName \in {"A", "D"} THEN baseRect ELSE lidRect
        np == Pt(clamp(m.x, rect.minX, rect.maxX), clamp(m.y, rect.minY, rect.maxY))
    IN  [ui |-> IF ~ui.dragState.isDragging THEN ui
                \* this.initialLidTransform is undefined before the first reset: the
                \* handler throws before it assigns
                ELSE IF pivotName \in {"B", "C"} /\ ui.lid = Null THEN ui
                ELSE updateAndRender([ui EXCEPT !.pivots[pivotName] = np]),
         calls |-> <<>>, finder |-> Null]

handleMouseUp(ui) ==
    IF ~ui.dragState.isDragging THEN [ui |-> ui, calls |-> <<>>, finder |-> Null]
    ELSE LET showStatic(r) == [r EXCEPT !.ui.animatedState = Null]
         IN  thenRender(showStatic(
                 captureReference([ui EXCEPT !.dragState.isDragging = FALSE])))

\* setHingeUnlocked finding the range before it stores the new mode
setHingeUnlockedLate(ui, unlocked) ==
    LET switched(r) == [r EXCEPT !.ui.hingeUnlocked = unlocked]
    IN  thenRender(switched(runAngleLimits(ui)))

setHingeUnlocked(ui, unlocked) ==
    LET wasUnlocked == ui.hingeUnlocked
        u1 == [ui EXCEPT !.hingeUnlocked = unlocked]
        u2 == IF wasUnlocked # unlocked /\ ui.animatedState # Null
              THEN [u1 EXCEPT !.lastValidC = ui.animatedState.C]
              ELSE u1
    IN  thenRender(runAngleLimits(u2))

animate(ui, angleOffset) ==
    LET solved(r0, u1, s) ==
            [ui |-> [u1 EXCEPT !.animatedState = s.result, !.lastValidC = s.lastValidC],
             calls |-> Append(r0.calls, [offset |-> angleOffset, state |-> s.result,
                                         before |-> u1.lastValidC, after |-> s.lastValidC]),
             finder |-> r0.finder]
        solve(r0, u1) == solved(r0, u1, calculateAnimatedStateForAngle(u1, angleOffset))
        withAngle(r0) == solve(r0, IF r0.ui.initialInputAngle = Null
                                   THEN [r0.ui EXCEPT !.initialInputAngle = [rad |-> 0]]
                                   ELSE r0.ui)
    IN  withAngle(IF missingPivot(ui) THEN reset(ui)
                  ELSE [ui |-> ui, calls |-> <<>>, finder |-> Null])

\* { ...boxDimensions, ...dimensions }: dimensions has some of the four keys
merged(boxDimensions, dimensions) ==
    [k \in DOMAIN boxDimensions |->
        IF k \in DOMAIN dimensions THEN dimensions[k] ELSE boxDimensions[k]]

updateBoxDimensions(ui, dimensions) ==
    reset([ui EXCEPT !.boxDimensions = merged(ui.boxDimensions, dimensions)])

\* number of decimals of a coordinate in JSON text
JsonDecimals == 4

\* JSON.parse(JSON.stringify(pivots)): each coordinate written in decimal and read back
jsonCopy(pivots) ==
    LET stringify(n) == RDiv(n * 10 ^ JsonDecimals, SCALE)
        parse(d) == RDiv(d * SCALE, 10 ^ JsonDecimals)
    IN  [k \in DOMAIN pivots |->
            IF pivots[k] = Null THEN Null
            ELSE Pt(parse(stringify(pivots[k].x)), parse(stringify(pivots[k].y)))]

getConfiguration(ui) ==
    [boxDimensions |-> ui.boxDimensions, pivots |-> jsonCopy(ui.pivots)]

\* config: [boxDimensions |-> Null or a record, pivots |-> Null or the four pivots]
setConfiguration(ui, config) ==
    LET u1 == IF config.boxDimensions # Null
              THEN [ui EXCEPT !.boxDimensions = merged(ui.boxDimensions,
                                                       config.boxDimensions)]
              ELSE ui
    IN  thenRender(IF config.pivots # Null
                   THEN captureReference([u1 EXCEPT !.pivots = jsonCopy(config.pivots)])
                   ELSE [ui |-> u1, calls |-> <<>>, finder |-> Null])

\* the slider's input listener of main.js, in design mode, at slider value v (0..180)
sliderInput(ui, v) ==
    LET animated(r1, r2) ==
            [ui |-> r2.ui,
             \* animate resets an object without pivots: the calls made before that
             \* were not made from the reference the object ends with
             calls |-> IF r2.finder # Null THEN r2.calls ELSE r1.calls \o r2.calls,
             finder |-> IF r2.finder # Null THEN r2.finder ELSE r1.finder]
        angleOffset(lim) == lim.min + RDiv(v * (lim.max - lim.min), 180)
        limited(r1) == animated(r1, animate(r1.ui, angleOffset(r1.ui.angleLimits)))
    IN  limited(runAngleLimits(ui))

(***************************************************************************)
(* MechanismCalculator: the three-position synthesis.  Lengths are in      *)
(* 1/SCALE units and rotations in degrees; a length that is NaN is the     *)
(* number NaN (lengths are never negative) and a point whose coordinates   *)
(* are NaN is NaNPoint.  The products of the line intersection need more   *)
(* than 32 bits, so tnum * (x2 - x1) / denom is computed by long           *)
(* multiplication modulo denom.                                            *)
(***************************************************************************)
NaN == -1

NaNPoint == [nan |-> TRUE]

Sgn(a) == IF a < 0 THEN -1 ELSE 1

\* x + y as carry * c + rest, for 0 <= x, y < c, without leaving 0 .. c
AddMod(x, y, c) ==
    IF x >= c - y THEN [carry |-> 1, rest |-> x - (c - y)]
    ELSE [carry |-> 0, rest |-> x + y]

RECURSIVE MulMod(_, _, _)
\* r * b as quot * c + rest, for 0 <= r < c and b >= 0
MulMod(r, b, c) ==
    IF b = 0 THEN [quot |-> 0, rest |-> 0]
    ELSE LET added(h, d, a) ==
                 [quot |-> 2 * h.quot + d.carry + a.carry, rest |-> a.rest]
             odd(h, d) ==
                 added(h, d, IF b % 2 = 1 THEN AddMod(d.rest, r, c)
                             ELSE [carry |-> 0, rest |-> d.rest])
             doubled(h) == odd(h, AddMod(h.rest, h.rest, c))
         IN  doubled(MulMod(r, b \div 2, c))

\* a * b / c rounded to nearest
MulDiv(a, b, c) ==
    LET rounded(m) ==
            (Abs(a) \div Abs(c)) * Abs(b) + m.quot
                + (IF m.rest >= Abs(c) - m.rest THEN 1 ELSE 0)
    IN  Sgn(a) * Sgn(b) * Sgn(c) * rounded(MulMod(Abs(a) % Abs(c), Abs(b), Abs(c)))

\* extensionLength of createPerpendicular, in units
ExtensionLength == 1000

\* |denom| < 1e-10 in findLineIntersection: below one unit of the last place
ParallelEps == 1

newMechanismCalculator ==
    [positions |-> <<>>,
     couplerPoints |-> [A |-> Null, B |-> Null],
     pivotPoints |-> [left |-> Null, right |-> Null],
     isValid |-> FALSE,
     couplerLength |-> Null]

calculateDistance(p1, p2) ==
    IF p1 = NaNPoint \/ p2 = NaNPoint THEN NaN
    ELSE Sqrt((p2.x - p1.x) * (p2.x - p1.x) + (p2.y - p1.y) * (p2.y - p1.y))

calculateMidpoint(p1, p2) == Pt(RDiv(p1.x + p2.x, 2), RDiv(p1.y + p2.y, 2))

\* positions: a sequence of [center |-> point, rotation |-> degrees].
\* Returns [obj |-> the object afterwards, threw |-> whether it threw].
setLidPositions(obj, positions) ==
    IF Len(positions) # 3 THEN [obj |-> obj, threw |-> TRUE]
    ELSE [obj |-> [obj EXCEPT
                      !.positions =
                          [i \in 1 .. 3 |->
                              [id |-> <<"closed", "intermediate", "open">>[i],
                               center |-> positions[i].center,
                               rotation |-> positions[i].rotation]],
                      !.isValid = FALSE],
          threw |-> FALSE]

\* setCouplerPoints leaving isValid as it is
setCouplerPointsKeepsValid(obj, pointA, pointB) ==
    [obj EXCEPT !.couplerPoints = [A |-> pointA, B |-> pointB],
                !.couplerLength = calculateDistance(pointA, pointB)]

setCouplerPoints(obj, pointA, pointB) ==
    [obj EXCEPT !.couplerPoints = [A |-> pointA, B |-> pointB],
                !.couplerLength = calculateDistance(pointA, pointB),
                !.isValid = FALSE]

transformPoint(point, center, rotation) ==
    LET rotated(cos, sin) ==
            Pt(center.x + RDiv(point.x * cos - point.y * sin, TrigScale),
               center.y + RDiv(point.x * sin + point.y * cos, TrigScale))
        turned(rad) == rotated(Cos(rad), Sin(rad))
    IN  turned(RDiv(rotation * Pi, 180))

\* the points' position and id labels are left out
transformCouplerToAllPositions(obj) ==
    [A |-> [i \in DOMAIN obj.positions |->
               transformPoint(obj.couplerPoints.A, obj.positions[i].center,
                              obj.positions[i].rotation)],
     B |-> [i \in DOMAIN obj.positions |->
               transformPoint(obj.couplerPoints.B, obj.positions[i].center,
                              obj.positions[i].rotation)]]

createConnectionLines(transformedPoints) ==
    LET line(start, end) ==
            [start |-> start, end |-> end, midpoint |-> calculateMidpoint(start, end)]
    IN  [A |-> [i \in 1 .. 2 |-> line(transformedPoints.A[i], transformedPoints.A[i + 1])],
         B |-> [i \in 1 .. 2 |-> line(transformedPoints.B[i], transformedPoints.B[i + 1])]]

\* The perpendicular laid along the connection line instead of across it
createPerpendicularAlongLine(line) ==
    LET extended(unitX, unitY) ==
            [midpoint |-> line.midpoint,
             direction |-> [x |-> unitX, y |-> unitY],
             start |-> Pt(line.midpoint.x - RDiv(unitX * ExtensionLength * SCALE, TrigScale),
                          line.midpoint.y - RDiv(unitY * ExtensionLength * SCALE, TrigScale)),
             end |-> Pt(line.midpoint.x + RDiv(unitX * ExtensionLength * SCALE, TrigScale),
                        line.midpoint.y + RDiv(unitY * ExtensionLength * SCALE, TrigScale))]
        normalized(perpDx, perpDy, length) ==
            IF length = 0
            THEN [midpoint |-> line.midpoint, direction |-> NaNPoint,
                  start |-> NaNPoint, end |-> NaNPoint]
            ELSE extended(RDiv(perpDx * TrigScale, length), RDiv(perpDy * TrigScale, length))
        perpendicular(perpDx, perpDy) ==
            normalized(perpDx, perpDy, Sqrt(perpDx * perpDx + perpDy * perpDy))
    IN  perpendicular(line.end.x - line.start.x, line.end.y - line.start.y)

\* direction has the unit vector in 1/TrigScale; with start = end the length is 0 and
\* every number of the result is NaN
createPerpendicular(line) ==
    LET extended(unitX, unitY) ==
            [midpoint |-> line.midpoint,
             direction |-> [x |-> unitX, y |-> unitY],
             start |-> Pt(line.midpoint.x - RDiv(unitX * ExtensionLength * SCALE, TrigScale),
                          line.midpoint.y - RDiv(unitY * ExtensionLength * SCALE, TrigScale)),
             end |-> Pt(line.midpoint.x + RDiv(unitX * ExtensionLength * SCALE, TrigScale),
                        line.midpoint.y + RDiv(unitY * ExtensionLength * SCALE, TrigScale))]
        normalized(perpDx, perpDy, length) ==
            IF length = 0
            THEN [midpoint |-> line.midpoint, direction |-> NaNPoint,
                  start |-> NaNPoint, end |-> NaNPoint]
            ELSE extended(RDiv(perpDx * TrigScale, length), RDiv(perpDy * TrigScale, length))
        perpendicular(perpDx, perpDy) ==
            normalized(perpDx, perpDy, Sqrt(perpDx * perpDx + perpDy * perpDy))
    IN  perpendicular(-(line.end.y - line.start.y), line.end.x - line.start.x)

createPerpendicularLines(connectionLines) ==
    [A |-> [i \in DOMAIN connectionLines.A |-> createPerpendicular(connectionLines.A[i])],
     B |-> [i \in DOMAIN connectionLines.B |-> createPerpendicular(connectionLines.B[i])]]

\* Null when the lines are parallel; a NaN line gives a NaN denom, which is not below
\* the threshold, and a NaN point
findLineIntersection(line1, line2) ==
    LET x1 == line1.start.x
        y1 == line1.start.y
        x2 == line1.end.x
        y2 == line1.end.y
        x3 == line2.start.x
        y3 == line2.start.y
        x4 == line2.end.x
        y4 == line2.end.y
        at(denom, tnum) ==
            IF Abs(denom) < ParallelEps THEN Null
            ELSE Pt(x1 + MulDiv(tnum, x2 - x1, denom), y1 + MulDiv(tnum, y2 - y1, denom))
    IN  IF line1.start = NaNPoint \/ line2.start = NaNPoint THEN NaNPoint
        ELSE at((x1 - x2) * (y3 - y4) - (y1 - y2) * (x3 - x4),
                (x1 - x3) * (y3 - y4) - (y1 - y3) * (x3 - x4))

findConvergencePoints(perpendiculars) ==
    LET pivots(pivotA, pivotB) ==
            [left |-> pivotA, right |-> pivotB, A |-> pivotA, D |-> pivotB]
    IN  pivots(findLineIntersection(perpendiculars.A[1], perpendiculars.A[2]),
               findLineIntersection(perpendiculars.B[1], perpendiculars.B[2]))

\* Null when it throws the TypeError of reading x of a null pivot
calculateLinkLengths(obj, pivots, transformedPoints) ==
    IF pivots.left = Null \/ pivots.right = Null THEN Null
    ELSE [inputLink |-> calculateDistance(pivots.left, transformedPoints.A[1]),
          couplerLink |-> obj.couplerLength,
          outputLink |-> calculateDistance(transformedPoints.B[1], pivots.right),
          groundLink |-> calculateDistance(pivots.left, pivots.right)]

\* Math.abs(d - l) > 0.1, false when either is NaN
inconsistent(d, l) == d # NaN /\ l # NaN /\ 10 * Abs(d - l) > SCALE

\* validateMechanism invalidating the mechanism on a warning
validateMechanismStrict(obj, pivots, transformedPoints) ==
    LET checks == <<[index |-> 1, link |-> "Input"], [index |-> 1, link |-> "Output"],
                    [index |-> 2, link |-> "Input"], [index |-> 2, link |-> "Output"],
                    [index |-> 3, link |-> "Input"], [index |-> 3, link |-> "Output"]>>
        warned(warnings) ==
            [isValid |-> Len(warnings) = 0, errors |-> <<>>, warnings |-> warnings]
        checked(linkLengths) ==
            warned(SelectSeq(checks, LAMBDA w :
                IF w.link = "Input"
                THEN inconsistent(calculateDistance(pivots.left,
                                                    transformedPoints.A[w.index]),
                                  linkLengths.inputLink)
                ELSE inconsistent(calculateDistance(pivots.right,
                                                    transformedPoints.B[w.index]),
                                  linkLengths.outputLink)))
    IN  IF pivots.left = Null \/ pivots.right = Null
        THEN [isValid |-> FALSE,
              errors |-> <<"Could not find pivot points - perpendicular lines may be parallel">>,
              warnings |-> <<>>]
        ELSE checked(calculateLinkLengths(obj, pivots, transformedPoints))

\* warnings: the [index, link] of each "Position index: link length inconsistent"
validateMechanism(obj, pivots, transformedPoints) ==
    LET checks == <<[index |-> 1, link |-> "Input"], [index |-> 1, link |-> "Output"],
                    [index |-> 2, link |-> "Input"], [index |-> 2, link |-> "Output"],
                    [index |-> 3, link |-> "Input"], [index |-> 3, link |-> "Output"]>>
        checked(linkLengths) ==
            [isValid |-> TRUE,
             errors |-> <<>>,
             warnings |-> SelectSeq(checks, LAMBDA w :
                IF w.link = "Input"
                THEN inconsistent(calculateDistance(pivots.left,
                                                    transformedPoints.A[w.index]),
                                  linkLengths.inputLink)
                ELSE inconsistent(calculateDistance(pivots.right,
                                                    transformedPoints.B[w.index]),
                                  linkLengths.outputLink))]
    IN  IF pivots.left = Null \/ pivots.right = Null
        THEN [isValid |-> FALSE,
              errors |-> <<"Could not find pivot points - perpendicular lines may be parallel">>,
              warnings |-> <<>>]
        ELSE checked(calculateLinkLengths(obj, pivots, transformedPoints))

\* Returns [obj |-> the object afterwards, outcome |-> [kind |-> "returned" or "threw",
\* value |-> the returned record or the error's name]].  The returned record's
\* connectionLines and perpendiculars are left out.
calculateMechanism(obj) ==
    LET threw(o, error) == [obj |-> o, outcome |-> [kind |-> "threw", value |-> error]]
        return(o, pivots, transformedPoints, validation, linkLengths) ==
            IF linkLengths = Null THEN threw(o, "TypeError")
            ELSE [obj |-> o,
                  outcome |-> [kind |-> "returned",
                               value |-> [pivotPoints |-> pivots,
                                          transformedPoints |-> transformedPoints,
                                          validation |-> validation,
                                          couplerLength |-> obj.couplerLength,
                                          linkLengths |-> linkLengths]]]
        store(pivots, transformedPoints, validation) ==
            return([obj EXCEPT !.pivotPoints = pivots, !.isValid = validation.isValid],
                   pivots, transformedPoints, validation,
                   calculateLinkLengths(obj, pivots, transformedPoints))
        validate(pivots, transformedPoints) ==
            store(pivots, transformedPoints,
                  validateMechanism(obj, pivots, transformedPoints))
        converge(transformedPoints) ==
            validate(findConvergencePoints(
                         createPerpendicularLines(
                             createConnectionLines(transformedPoints))),
                     transformedPoints)
    IN  IF Len(obj.positions) # 3 THEN threw(obj, "Error")
        ELSE IF obj.couplerPoints.A = Null \/ obj.couplerPoints.B = Null
        THEN threw(obj, "Error")
        ELSE converge(transformCouplerToAllPositions(obj))

\* MechanismCalculator.reset
resetCalculator(obj) ==
    [obj EXCEPT !.positions = <<>>,
                !.couplerPoints = [A |-> Null, B |-> Null],
                !.pivotPoints = [left |-> Null, right |-> Null],
                !.isValid = FALSE,
                !.couplerLength = 0]

(***************************************************************************)
(* The page script: units toggle, export and import.  A dimension field    *)
(* holds a decimal number with at most two decimals, kept in hundredths.   *)
(***************************************************************************)
\* hundredths in one unit of a dimension field
FieldScale == 100

\* MM_PER_INCH = 25.4, in tenths
MM_PER_INCH == 254

\* the page as loaded: millimetres, the fields showing the DesignerUI defaults, and
\* nothing exported yet
newPage ==
    [currentUnit |-> "mm",
     inputs |-> [width |-> 900 * FieldScale, baseHeight |-> 300 * FieldScale,
                 lidHeight |-> 100 * FieldScale, lidGap |-> 20 * FieldScale],
     file |-> Null,
     exported |-> Null,
     \* the slider's value and lastValidPct, in percent; what the last run of
     \* clampToValidPct did
     slider |-> 0,
     lastValidPct |-> 0,
     clamp |-> Null]

\* parseInt and parseFloat of a field's text
parseInt(field) == field \div FieldScale

parseFloat(field) == field

\* the value in the other unit, in 1/FieldScale^2
convertValue(value, fromUnit, toUnit) ==
    IF fromUnit = toUnit THEN value * FieldScale
    ELSE IF fromUnit = "mm" /\ toUnit = "inches"
    THEN RDiv(value * FieldScale * 10, MM_PER_INCH)
    ELSE IF fromUnit = "inches" /\ toUnit = "mm"
    THEN value * MM_PER_INCH * (FieldScale \div 10)
    ELSE value * FieldScale

\* toFixed(digits) of a value in 1/FieldScale^2, as a field's text: digits is 2 or 0
toFixed(value, digits) ==
    IF digits = 2 THEN RDiv(value, FieldScale)
    ELSE RDiv(value, FieldScale * FieldScale) * FieldScale

updateInputsForUnit(pg, newUnit) ==
    IF newUnit = pg.currentUnit THEN pg
    ELSE [pg EXCEPT
             !.inputs = [k \in DOMAIN pg.inputs |->
                            toFixed(convertValue(parseFloat(pg.inputs[k]),
                                                 pg.currentUnit, newUnit),
                                    IF newUnit = "inches" THEN 2 ELSE 0)],
             !.currentUnit = newUnit]

\* the slider's listener run with the slider at '0' and lastValidPct at 0, as every
\* handler of the page dispatches it: clampToValidPct(0) probes offset pctToAngle(0),
\* restores lastValidC and returns 0 whatever the probe gives, then animate runs
sliderAtZero(r) ==
    LET probed(s) ==
            [offset |-> r.ui.angleLimits.min, state |-> s.result,
             before |-> r.ui.lastValidC, after |-> s.lastValidC]
        animated(a, probe) ==
            [ui |-> a.ui,
             calls |-> IF a.finder # Null THEN a.calls
                       ELSE (r.calls \o <<probe>>) \o a.calls,
             finder |-> IF a.finder # Null THEN a.finder ELSE r.finder]
    IN  animated(animate(r.ui, r.ui.angleLimits.min),
                 probed(calculateAnimatedStateForAngle(r.ui, r.ui.angleLimits.min)))

\* switchMode: a new DesignerUI, reset, and the slider set to '0'
switchMode == sliderAtZero(reset(constructor))

\* the record exportConfiguration writes to the file
exportConfiguration(ui, pg) ==
    [boxWidth |-> parseInt(pg.inputs.width),
     lidHeight |-> parseInt(pg.inputs.lidHeight),
     baseHeight |-> parseInt(pg.inputs.baseHeight),
     lidGap |-> parseInt(pg.inputs.lidGap),
     pivots |-> IF missingPivot(ui) THEN Null ELSE getConfiguration(ui).pivots]

\* importConfiguration's reader.onload on the text of the file
importConfiguration(ui, pg, config) ==
    LET dimensions == [width |-> config.boxWidth, baseHeight |-> config.baseHeight,
                       lidHeight |-> config.lidHeight, lidGap |-> config.lidGap]
        applied(r1) ==
            IF config.pivots # Null
            THEN setConfiguration(r1.ui, [boxDimensions |-> dimensions,
                                          pivots |-> jsonCopy(config.pivots)])
            ELSE r1
    IN  [r |-> sliderAtZero(applied(updateBoxDimensions(ui, dimensions))),
         page |-> [pg EXCEPT !.inputs = [k \in DOMAIN dimensions |->
                                            dimensions[k] * FieldScale],
                             !.lastValidPct = 0, !.slider = 0]]

\* a slider percentage is an integer count of 1/PctScale percent: the bisection of
\* clampToValidPct halves a difference of at most 100 up to 14 times
PctScale == 2 ^ 14

\* Math.round of a percentage that is not negative
roundPct(p) == (2 * p + PctScale) \div (2 * PctScale)

\* pctToAngle(pct), pct in 1/PctScale: min + (pct / 100) * (max - min), the product
\* taken on the whole and the fractional part of pct so that it stays in 32 bits
pctToAngle(obj, p) ==
    LET scaled(range) ==
            RDiv((p \div PctScale) * range
                     + (p % PctScale) * (range \div PctScale)
                     + ((p % PctScale) * (range % PctScale)) \div PctScale,
                 100)
        spanned(range) == obj.angleLimits.min + Sgn(range) * scaled(Abs(range))
    IN  spanned(obj.angleLimits.max - obj.angleLimits.min)

\* isValidPct(p), called with this.lastValidC = st.lastValidC after the solver calls
\* st.probes: st with whether the solver returned a state (ok), and lastValidC and the
\* calls afterwards
isValidPct(obj, st, p) ==
    LET solved(offset, s) ==
            [st EXCEPT !.probes = Append(st.probes,
                                         [offset |-> offset, state |-> s.result,
                                          before |-> st.lastValidC,
                                          after |-> s.lastValidC]),
                       !.ok = s.result # Null,
                       !.lastValidC = s.lastValidC]
        at(offset) ==
            solved(offset,
                   calculateAnimatedStateForAngle([obj EXCEPT !.lastValidC = st.lastValidC],
                                                  offset))
    IN  at(pctToAngle(obj, p))

\* clampToValidPct from one isValidPct call to the next.  st holds the locals (lo, hi,
\* loValid, left, right, i), the statement reached (at: the call on the target, on
\* lo, on hi, on left, on right, or the one in the for loop), the percentage p that
\* call is made with, this.lastValidC and the solver calls made so far, and after the
\* last call the return taken (path).
clampStep(obj, st) ==
    LET mid(l, r) == (l + r) \div 2
        loop(t, l, r) ==
            [t EXCEPT !.at = "mid", !.left = l, !.right = r, !.p = mid(l, r)]
        narrowed(t, l, r) ==
            IF Abs(r - l) * 100 < PctScale \/ t.i + 1 >= 25
            THEN [t EXCEPT !.left = l, !.right = r, !.path = "bisection"]
            ELSE [loop(t, l, r) EXCEPT !.i = t.i + 1]
        called(t) ==
            CASE st.at = "target" ->
                   IF t.ok THEN [t EXCEPT !.path = "target"]
                   ELSE [t EXCEPT !.at = "lo", !.p = t.lo]
              [] st.at = "lo" ->
                   [t EXCEPT !.at = "hi", !.p = t.hi, !.loValid = t.ok]
              [] st.at = "hi" ->
                   IF ~t.loValid /\ ~t.ok THEN [t EXCEPT !.path = "neither"]
                   ELSE IF t.ok /\ ~t.loValid
                   THEN [t EXCEPT !.at = "left", !.left = t.hi, !.right = t.lo, !.p = t.hi]
                   ELSE [t EXCEPT !.at = "left", !.left = t.lo, !.right = t.hi, !.p = t.lo]
              [] st.at = "left" ->
                   IF t.ok THEN loop(t, t.left, t.right)
                   ELSE [t EXCEPT !.at = "right", !.p = t.right]
              [] st.at = "right" ->
                   IF t.ok THEN loop(t, t.right, t.left) ELSE loop(t, t.left, t.right)
              [] st.at = "mid" ->
                   IF t.ok THEN narrowed(t, t.p, t.right) ELSE narrowed(t, t.left, t.p)
    IN  called(isValidPct(obj, st, st.p))

RECURSIVE clampLoop(_, _)
clampLoop(obj, st) == IF st.path # "" THEN st ELSE clampLoop(obj, clampStep(obj, st))

\* clampToValidPct up to its return statements, the restores of lastValidC left out:
\* [path |-> the return taken, lastValidPct |-> the page's lastValidPct afterwards,
\*  pct |-> the percentage returned, lastValidC |-> this.lastValidC after the last
\*  solver call, probes |-> the solver calls made]
clampProbes(obj, lastValidPct, targetPct) ==
    LET pct == Max(0, Min(100, targetPct))
        return(st) ==
            [path |-> st.path,
             lastValidPct |-> CASE st.path = "target" -> pct
                                [] st.path = "neither" -> lastValidPct
                                [] st.path = "bisection" -> roundPct(st.left),
             pct |-> CASE st.path = "target" -> roundPct(pct * PctScale)
                       [] st.path = "neither" -> lastValidPct
                       [] st.path = "bisection" -> roundPct(st.left),
             lastValidC |-> st.lastValidC, probes |-> st.probes]
    IN  return(clampLoop(obj, [at |-> "target", p |-> pct * PctScale, path |-> "",
                               lo |-> Min(pct, lastValidPct) * PctScale,
                               hi |-> Max(pct, lastValidPct) * PctScale,
                               loValid |-> FALSE, left |-> 0, right |-> 0, i |-> 0,
                               ok |-> FALSE, lastValidC |-> obj.lastValidC,
                               probes |-> <<>>]))

\* clampToValidPct without the restores of lastValidC
clampToValidPctNoRestore(obj, lastValidPct, targetPct) ==
    LET returned(c) ==
            [ui |-> [obj EXCEPT !.lastValidC = c.lastValidC],
             lastValidPct |-> c.lastValidPct, pct |-> c.pct, path |-> c.path,
             probes |-> c.probes, before |-> obj.lastValidC]
    IN  returned(clampProbes(obj, lastValidPct, targetPct))

\* clampToValidPct(targetPct) with the page's lastValidPct, both whole percentages:
\* [ui |-> the object afterwards, lastValidPct |-> the page's lastValidPct afterwards,
\*  pct |-> the percentage returned, path |-> the return taken,
\*  probes |-> the solver calls made, before |-> lastValidC on entry]
clampToValidPct(obj, lastValidPct, targetPct) ==
    LET savedLastValidC == obj.lastValidC
        returned(c) ==
            [ui |-> [obj EXCEPT !.lastValidC = savedLastValidC],
             lastValidPct |-> c.lastValidPct, pct |-> c.pct, path |-> c.path,
             probes |-> c.probes, before |-> savedLastValidC]
    IN  returned(clampProbes(obj, lastValidPct, targetPct))

\* the slider's input listener in design mode, the slider at value (a whole percentage)
sliderListener(obj, pg, value) ==
    LET animated(c, a) ==
            [r |-> [ui |-> a.ui,
                    calls |-> IF a.finder # Null THEN a.calls ELSE c.probes \o a.calls,
                    finder |-> a.finder],
             page |-> [pg EXCEPT !.slider = c.pct,
                                 !.lastValidPct = c.lastValidPct,
                                 !.clamp = [path |-> c.path, targetPct |-> value,
                                            before |-> c.before,
                                            after |-> c.ui.lastValidC,
                                            probes |-> c.probes,
                                            state |-> a.ui.animatedState]]]
        clamped(c) == animated(c, animate(c.ui, pctToAngle(c.ui, c.pct * PctScale)))
    IN  clamped(clampToValidPct(obj, pg.lastValidPct, value))

\* the unlock checkbox's change listener
unlockChange(obj, pg, checked) ==
    LET dispatched(r1, d) ==
            [r |-> [ui |-> d.r.ui,
                    calls |-> IF d.r.finder # Null THEN d.r.calls ELSE r1.calls \o d.r.calls,
                    finder |-> IF d.r.finder # Null THEN d.r.finder ELSE r1.finder],
             page |-> d.page]
        toggled(r1) ==
            dispatched(r1, sliderListener(r1.ui, [pg EXCEPT !.lastValidPct = 0,
                                                            !.slider = 0], 0))
    IN  toggled(setHingeUnlocked(obj, checked))

\* a dimension field's input listener: the field named dimensionKey now reads text
dimensionInput(obj, pg, dimensionKey, text) ==
    [r |-> sliderAtZero(updateBoxDimensions(obj, dimensionKey :> parseInt(text))),
     page |-> [pg EXCEPT !.inputs[dimensionKey] = text,
                         !.lastValidPct = 0, !.slider = 0]]

(***************************************************************************)
(* The state machine: the page's events, one action each                   *)
(***************************************************************************)
VARIABLES
    ui,     \* the DesignerUI object
    last,   \* the last event: its name, the solver calls it made, and lastValidC
            \* before and after its calculateAngleLimits call (if any)
    kernel, \* the last direct call of a FourBarLinkageCalculator function: its
            \* name, its arguments and what it returned
    calc,   \* a MechanismCalculator object, the poses and coupler points its
            \* caller holds, and the outcome of its last method call
    page    \* the page around the DesignerUI object: the unit setting, the four
            \* dimension fields, and the configuration file last exported

vars == <<ui, last, kernel, calc, page>>

\* where the mouse is pressed: on the default A, on the default B
PressPoints == {P(250, 500), P(500, 210)}

\* where the mouse is moved to during a drag: onto the default C
MousePoints == {P(300, 210)}

\* the offsets animate is called with: 0, 0.2 rad, 1 rad
AnimateOffsets == {0, 20000, 100000}

SliderValues == {90}

ImportedConfigs ==
    {[boxDimensions |-> Null,
      pivots |-> [A |-> P(410, 540), B |-> P(510, 220), C |-> P(600, 190), D |-> P(380, 450)]]}

\* the dimension a dimension control passes: one key, an integer
BoxEdits == {[lidGap |-> 30]}

Event(name, r) ==
    /\ ui' = r.ui
    /\ last' = [op |-> name, calls |-> r.calls, finder |-> r.finder]
    /\ UNCHANGED <<kernel, calc, page>>

Init ==
    /\ ui = constructor
    /\ last = [op |-> "new", calls |-> <<>>, finder |-> Null]
    /\ kernel = [op |-> "none"]
    /\ calc = [obj |-> newMechanismCalculator, input |-> Null,
               outcome |-> [op |-> "new", kind |-> "returned", value |-> Null]]
    /\ page = newPage

Reset == Event("reset", reset(ui))

MouseDown ==
    \E m \in PressPoints :
        /\ hitTest(ui, m) # Null
        /\ Event("mousedown", handleMouseDown(ui, m))

MouseMove ==
    /\ ui.dragState.isDragging
    /\ \E m \in MousePoints : Event("mousemove", handleMouseMove(ui, m))

MouseUp ==
    /\ ui.dragState.isDragging
    /\ Event("mouseup", handleMouseUp(ui))

SetHingeUnlocked ==
    \E unlocked \in BOOLEAN : Event("setHingeUnlocked", setHingeUnlocked(ui, unlocked))

Animate ==
    \E angleOffset \in AnimateOffsets : Event("animate", animate(ui, angleOffset))

SetConfiguration ==
    \E config \in ImportedConfigs : Event("setConfiguration", setConfiguration(ui, config))

SliderInput ==
    \E v \in SliderValues : Event("slider", sliderInput(ui, v))

UpdateBoxDimensions ==
    \E dimensions \in BoxEdits :
        Event("updateBoxDimensions", updateBoxDimensions(ui, dimensions))

Next ==
    \/ Reset
    \/ MouseDown
    \/ MouseMove
    \/ MouseUp
    \/ SetHingeUnlocked
    \/ Animate
    \/ SetConfiguration
    \/ SliderInput

Spec == Init /\ [][Next]_vars

(***************************************************************************)
(* The page in design mode, editing: drags of the pivots, the dimension    *)
(* controls, the unlock checkbox, an imported configuration and the        *)
(* slider.                                                                 *)
(***************************************************************************)
EditNext ==
    \/ MouseDown
    \/ MouseMove
    \/ MouseUp
    \/ SetHingeUnlocked
    \/ UpdateBoxDimensions
    \/ SetConfiguration
    \/ SliderInput

EditSpec == Init /\ [][EditNext]_vars

(***************************************************************************)
(* The geometry kernel called directly: its functions are static and pure, *)
(* so a call changes nothing of the DesignerUI object.                     *)
(***************************************************************************)
\* segment endpoints: the points of the grid 0 .. GridMax squared
GridMax == 3

GridPoints == {Pt(gx, gy) : gx \in 0 .. GridMax, gy \in 0 .. GridMax}

\* circle centres, at distances 0, 40, 50, 60, 80.6 and 100 units from each other
Centres == {P(0, 0), P(30, 40), P(60, 0), P(100, 0)}

\* circle radii, in units
Radii == {10 * SCALE, 30 * SCALE, 50 * SCALE, 70 * SCALE}

\* the calls a caller can make: the function, its arguments, and no result yet
KernelCalls ==
    {[op |-> "circleCircleIntersection", done |-> FALSE, result |-> Null,
      p1 |-> p1, r1 |-> r1, p2 |-> p2, r2 |-> r2] :
         p1 \in Centres, p2 \in Centres, r1 \in Radii, r2 \in Radii}
    \cup
    {[op |-> "segmentsIntersect", done |-> FALSE, result |-> Null,
      p1 |-> p1, q1 |-> q1, p2 |-> p2, q2 |-> q2] :
         p1 \in GridPoints, q1 \in GridPoints, p2 \in GridPoints, q2 \in GridPoints}

KernelInit ==
    /\ ui = constructor
    /\ last = [op |-> "new", calls |-> <<>>, finder |-> Null]
    /\ kernel \in KernelCalls
    /\ calc = [obj |-> newMechanismCalculator, input |-> Null,
               outcome |-> [op |-> "new", kind |-> "returned", value |-> Null]]
    /\ page = newPage

CircleCircleIntersection ==
    /\ kernel.op = "circleCircleIntersection"
    /\ ~kernel.done
    /\ kernel' = [kernel EXCEPT
                      !.done = TRUE,
                      !.result = circleCircleIntersection(kernel.p1, kernel.r1,
                                                          kernel.p2, kernel.r2)]
    /\ UNCHANGED <<ui, last, calc, page>>

SegmentsIntersect ==
    /\ kernel.op = "segmentsIntersect"
    /\ ~kernel.done
    /\ kernel' = [kernel EXCEPT
                      !.done = TRUE,
                      !.result = segmentsIntersect(kernel.p1, kernel.q1,
                                                   kernel.p2, kernel.q2)]
    /\ UNCHANGED <<ui, last, calc, page>>

KernelNext ==
    \/ CircleCircleIntersection
    \/ SegmentsIntersect

KernelSpec == KernelInit /\ [][KernelNext]_vars

(***************************************************************************)
(* The synthesis: a caller holding three lid poses and two coupler points  *)
(* sets them on a MechanismCalculator and calculates.                      *)
(***************************************************************************)
\* the centres of the closed, the intermediate and the open pose
ClosedCentres == {P(0, 0)}

IntermediateCentres == {P(10, 0), P(10, 5)}

OpenCentres == {P(30, 0), P(20, 10), P(10, 0)}

\* the rotations of a pose, in degrees
Rotations == {0, 45, 90}

\* the coupler points on the closed lid
CouplerPointsA == {P(0, 0), P(-5, 0)}

CouplerPointsB == {P(10, 0), P(5, 5)}

SynthesisInputs ==
    {[positions |-> <<[center |-> c1, rotation |-> r1],
                      [center |-> c2, rotation |-> r2],
                      [center |-> c3, rotation |-> r3]>>,
      A |-> a, B |-> b] :
         c1 \in ClosedCentres, c2 \in IntermediateCentres, c3 \in OpenCentres,
         r1 \in {0}, r2 \in Rotations, r3 \in Rotations,
         a \in CouplerPointsA, b \in CouplerPointsB}

SynthesisInit ==
    /\ ui = constructor
    /\ last = [op |-> "new", calls |-> <<>>, finder |-> Null]
    /\ kernel = [op |-> "none"]
    /\ calc \in {[obj |-> newMechanismCalculator, input |-> input,
                  outcome |-> [op |-> "new", kind |-> "returned", value |-> Null]] :
                     input \in SynthesisInputs}
    /\ page = newPage

Called(name, r) ==
    /\ calc' = [calc EXCEPT !.obj = r.obj,
                            !.outcome = [op |-> name, kind |-> r.outcome.kind,
                                         value |-> r.outcome.value]]
    /\ UNCHANGED <<ui, last, kernel, page>>

SetLidPositions ==
    LET set(r) ==
            [obj |-> r.obj,
             outcome |-> [kind |-> IF r.threw THEN "threw" ELSE "returned",
                          value |-> Null]]
    IN  Called("setLidPositions", set(setLidPositions(calc.obj, calc.input.positions)))

SetCouplerPoints ==
    Called("setCouplerPoints",
           [obj |-> setCouplerPoints(calc.obj, calc.input.A, calc.input.B),
            outcome |-> [kind |-> "returned", value |-> Null]])

CalculateMechanism == Called("calculateMechanism", calculateMechanism(calc.obj))

ResetCalculator ==
    Called("reset", [obj |-> resetCalculator(calc.obj),
                     outcome |-> [kind |-> "returned", value |-> Null]])

SynthesisNext ==
    \/ SetLidPositions
    \/ SetCouplerPoints
    \/ CalculateMechanism
    \/ ResetCalculator

SynthesisSpec == SynthesisInit /\ [][SynthesisNext]_vars

(***************************************************************************)
(* The calculator's caller as above, which may also pass setLidPositions   *)
(* only the first two of its poses.                                        *)
(***************************************************************************)
SetTwoLidPositions ==
    LET set(r) ==
            [obj |-> r.obj,
             outcome |-> [kind |-> IF r.threw THEN "threw" ELSE "returned",
                          value |-> Null]]
    IN  Called("setLidPositions",
               set(setLidPositions(calc.obj, SubSeq(calc.input.positions, 1, 2))))

CalculatorNext ==
    \/ SetLidPositions
    \/ SetTwoLidPositions
    \/ SetCouplerPoints
    \/ CalculateMechanism
    \/ ResetCalculator

CalculatorSpec == SynthesisInit /\ [][CalculatorNext]_vars

(***************************************************************************)
(* The page: its units toggle, export and import buttons, around the       *)
(* DesignerUI object it created.                                           *)
(***************************************************************************)
Units == {"mm", "inches"}

\* the largest dimension a field is taken to show, in units
MaxDimension == 1000

PageInit ==
    /\ ui = switchMode.ui
    /\ last = [op |-> "switchMode", calls |-> switchMode.calls, finder |-> switchMode.finder]
    /\ kernel = [op |-> "none"]
    /\ calc = [obj |-> newMechanismCalculator, input |-> Null,
               outcome |-> [op |-> "new", kind |-> "returned", value |-> Null]]
    /\ page = newPage

PageEvent(name, r, pg) ==
    /\ ui' = r.ui
    /\ last' = [op |-> name, calls |-> r.calls, finder |-> r.finder]
    /\ page' = pg
    /\ UNCHANGED <<kernel, calc>>

UnitsToggle ==
    \E newUnit \in Units :
        LET toggled(pg) ==
                /\ \A k \in DOMAIN pg.inputs : pg.inputs[k] <= MaxDimension * FieldScale
                /\ PageEvent("units", [ui |-> ui, calls |-> <<>>, finder |-> Null], pg)
        IN  toggled(updateInputsForUnit(page, newUnit))

ExportConfiguration ==
    PageEvent("exportConfiguration", [ui |-> ui, calls |-> <<>>, finder |-> Null],
              [page EXCEPT !.file = exportConfiguration(ui, page),
                           !.exported = getConfiguration(ui)])

ImportConfiguration ==
    /\ page.file # Null
    /\ LET imported(i) == PageEvent("importConfiguration", i.r, i.page)
       IN  imported(importConfiguration(ui, page, page.file))

\* setConfiguration(getConfiguration())
RoundTrip == Event("roundTrip", setConfiguration(ui, getConfiguration(ui)))

PageNext ==
    \/ UnitsToggle
    \/ ExportConfiguration
    \/ ImportConfiguration
    \/ RoundTrip
    \/ SetConfiguration

PageSpec == PageInit /\ [][PageNext]_vars

(***************************************************************************)
(* The page in design mode, laying out the box: the dimension fields, drags *)
(* of the pivots, a reset and an imported configuration.                   *)
(***************************************************************************)
\* what is typed into a dimension field: a width of 100, a base height of 50, a lid
\* height of 150
TypedDimensions ==
    {[dimensionKey |-> "width", text |-> 100 * FieldScale],
     [dimensionKey |-> "baseHeight", text |-> 50 * FieldScale],
     [dimensionKey |-> "lidHeight", text |-> 150 * FieldScale]}

DimensionInput ==
    \E typed \in TypedDimensions :
        LET handled(d) == PageEvent("dimensionInput", d.r, d.page)
        IN  handled(dimensionInput(ui, page, typed.dimensionKey, typed.text))

BoxNext ==
    \/ DimensionInput
    \/ MouseDown
    \/ MouseMove
    \/ MouseUp
    \/ Reset
    \/ SetConfiguration

BoxSpec == PageInit /\ [][BoxNext]_vars

(***************************************************************************)
(* The solver and the range finder on a linkage of any shape: the object    *)
(* has been given its pivots by setConfiguration, and is then animated,     *)
(* driven by the slider, and switched between the lock modes.               *)
(***************************************************************************)
\* the pivots of the configuration: the default linkage, a flat one (the four pivots
\* on the line y = 300) and the mixtures of the two
ReferencePivots ==
    {[A |-> a, B |-> b, C |-> c, D |-> d] :
        a \in {P(250, 500), P(100, 300)}, b \in {P(500, 210), P(300, 300)},
        c \in {P(300, 210), P(200, 300)}, d \in {P(550, 500), P(400, 300)}}

SolverInit ==
    /\ \E pivots \in ReferencePivots :
           LET configured(r) ==
                   /\ ui = r.ui
                   /\ last = [op |-> "setConfiguration", calls |-> r.calls,
                              finder |-> r.finder]
           IN  configured(setConfiguration(constructor,
                                           [boxDimensions |-> Null, pivots |-> pivots]))
    /\ kernel = [op |-> "none"]
    /\ calc = [obj |-> newMechanismCalculator, input |-> Null,
               outcome |-> [op |-> "new", kind |-> "returned", value |-> Null]]
    /\ page = newPage

SolverNext ==
    \/ Animate
    \/ SliderInput
    \/ SetHingeUnlocked

SolverSpec == SolverInit /\ [][SolverNext]_vars

(***************************************************************************)
(* The page in design mode, animating: the slider, the unlock checkbox and  *)
(* drags of the pivots.                                                    *)
(***************************************************************************)
\* the percentages the slider is moved to
SliderPcts == {0, 30, 100}

SliderMove ==
    \E value \in SliderPcts :
        LET handled(d) == PageEvent("sliderListener", d.r, d.page)
        IN  handled(sliderListener(ui, page, value))

UnlockChange ==
    \E checked \in BOOLEAN :
        LET handled(d) == PageEvent("unlockChange", d.r, d.page)
        IN  handled(unlockChange(ui, page, checked))

SliderNext ==
    \/ SliderMove
    \/ UnlockChange
    \/ MouseDown
    \/ MouseMove
    \/ MouseUp

SliderSpec == PageInit /\ [][SliderNext]_vars

(***************************************************************************)
(* The properties                                                          *)
(*                                                                         *)
(* In every state the solver calls of last.calls were made from the        *)
(* reference the object holds in that state: every handler captures the    *)
(* reference before its first solver call and does not touch it after.     *)
(***************************************************************************)
\* how far, in 1/SCALE units, a rounded coordinate or length may be from the exact one
Tolerance == 2

\* the grid the offsets between the limits are sampled on
Samples == 8

\* the steps beyond a limit, all larger than the search precision
Epsilons == {2 * Precision, 20 * Precision, 2000 * Precision}

NonDegenerate(pv) ==
    /\ distance(pv.A, pv.B) >= SCALE
    /\ distance(pv.C, pv.D) >= SCALE
    /\ distance(pv.B, pv.C) >= SCALE

\* the object holds a valid reference: the four pivots, non-degenerate, AB crossing
\* CD, and the input angle and the orientation signs captured from these pivots
ValidReference ==
    /\ ~missingPivot(ui)
    /\ NonDegenerate(ui.pivots)
    /\ segmentsIntersect(ui.pivots.A, ui.pivots.B, ui.pivots.C, ui.pivots.D)
    /\ ui.initialInputAngle =
           [rad |-> Atan2(ui.pivots.B.y - ui.pivots.A.y, ui.pivots.B.x - ui.pivots.A.x)]
    /\ ui.initialOrientations = storeInitialOrientations(ui.pivots)

\* what the solver returns at this offset from the object's reference
solveAt(angleOffset) == calculateAnimatedStateForAngle(ui, angleOffset).result

Near(p, q) == Abs(p.x - q.x) <= Tolerance /\ Abs(p.y - q.y) <= Tolerance

\* C1: a solver call that returns null leaves lastValidC as it was before the call
C1_NullLeavesLastValidC ==
    \A i \in DOMAIN last.calls :
        last.calls[i].state = Null => last.calls[i].after = last.calls[i].before

\* a solver call from a valid reference returned null with a lastValidC to lose
C1_Witness ==
    /\ ValidReference
    /\ \E i \in DOMAIN last.calls :
           last.calls[i].state = Null /\ last.calls[i].before # Null

\* C2: calculateAngleLimits leaves lastValidC equal to its value before the call
C2_RangeFinderLeavesLastValidC ==
    last.finder # Null => last.finder.after = last.finder.before

\* C3: after calculateAngleLimits the stored limits satisfy min <= 0 <= max
C3_LimitsBracketZero ==
    last.finder # Null => ui.angleLimits.min <= 0 /\ 0 <= ui.angleLimits.max

\* C4: from a valid reference the solver succeeds at the offsets angleLimits.min and
\* angleLimits.max that calculateAngleLimits reported for it
C4_SolverSucceedsAtLimits ==
    (last.finder # Null /\ ValidReference) =>
        /\ solveAt(ui.angleLimits.min) # Null
        /\ solveAt(ui.angleLimits.max) # Null

\* calculateAngleLimits reported a limit away from 0 for a valid reference
C4_Witness ==
    /\ last.finder # Null
    /\ ValidReference
    /\ Abs(ui.angleLimits.max) > HalfPi

\* C5: from a valid reference the solver fails at angleLimits.min - e and at
\* angleLimits.max + e for every e beyond the search precision
C5_SolverFailsBeyondLimits ==
    (last.finder # Null /\ ValidReference) =>
        \A e \in Epsilons :
            /\ solveAt(ui.angleLimits.min - e) = Null
            /\ solveAt(ui.angleLimits.max + e) = Null

\* C6: from a valid reference the solver succeeds at every offset between
\* angleLimits.min and angleLimits.max
C6_RangeIsContiguous ==
    (last.finder # Null /\ ValidReference) =>
        \A k \in 0 .. Samples :
            solveAt(ui.angleLimits.min
                    + RDiv(k * (ui.angleLimits.max - ui.angleLimits.min), Samples)) # Null

\* C7: from a valid reference a solver call at offset 0 returns the reference pivots,
\* whatever lastValidC the earlier calls left
C7_IdentityAtZero ==
    ValidReference =>
        \A i \in DOMAIN last.calls :
            last.calls[i].offset = 0 =>
                LET s == last.calls[i].state
                IN  /\ s # Null
                    /\ s.A = ui.pivots.A
                    /\ s.D = ui.pivots.D
                    /\ Near(s.B, ui.pivots.B)
                    /\ Near(s.C, ui.pivots.C)

C9_LockedGates ==
    (~ui.hingeUnlocked /\ ui.initialOrientations # Null) =>
        \A i \in DOMAIN last.calls :
            LET s == last.calls[i].state
            IN  s # Null =>
                    /\ segmentsIntersect(s.A, s.B, s.C, s.D)
                    /\ orientation(s.A, s.D, s.B) = ui.initialOrientations.adb
                    /\ orientation(s.C, s.A, s.D) = ui.initialOrientations.cda

\* in locked mode the solver returned a state away from the reference
C9_Witness ==
    /\ ~ui.hingeUnlocked
    /\ ValidReference
    /\ \E i \in DOMAIN last.calls :
           /\ last.calls[i].state # Null
           /\ Abs(last.calls[i].offset) > Pi

\* the circles (B', l_bc) and (D, l_cd) at this offset intersect
circlesIntersect(angleOffset) ==
    LET pv == ui.pivots
        l_ab == distance(pv.A, pv.B)
        newAngle == ui.initialInputAngle.rad + angleOffset
        newB == Pt(pv.A.x + RDiv(l_ab * Cos(newAngle), TrigScale),
                   pv.A.y + RDiv(l_ab * Sin(newAngle), TrigScale))
    IN  Len(circleCircleIntersection(newB, distance(pv.B, pv.C), pv.D,
                                     distance(pv.C, pv.D))) > 0

\* C10: in unlocked mode the solver returns a state exactly when the linkage is
\* non-degenerate and the two circles intersect
C10_UnlockedAcceptsAll ==
    (ui.hingeUnlocked /\ ~missingPivot(ui) /\ ui.initialInputAngle # Null) =>
        \A i \in DOMAIN last.calls :
            (last.calls[i].state # Null)
                <=> (NonDegenerate(ui.pivots) /\ circlesIntersect(last.calls[i].offset))

\* in unlocked mode the solver returned a state that does not cross, and failed at
\* another offset
C10_Witness ==
    /\ ui.hingeUnlocked
    /\ ValidReference
    /\ \E i, j \in DOMAIN last.calls :
           /\ last.calls[i].state # Null
           /\ ~segmentsIntersect(last.calls[i].state.A, last.calls[i].state.B,
                                 last.calls[i].state.C, last.calls[i].state.D)
           /\ last.calls[j].state = Null

\* the candidates for C' at this offset: the intersections of (B', l_bc) and (D, l_cd)
candidatesAt(angleOffset) ==
    LET pv == ui.pivots
        l_ab == distance(pv.A, pv.B)
        newAngle == ui.initialInputAngle.rad + angleOffset
        newB == Pt(pv.A.x + RDiv(l_ab * Cos(newAngle), TrigScale),
                   pv.A.y + RDiv(l_ab * Sin(newAngle), TrigScale))
    IN  circleCircleIntersection(newB, distance(pv.B, pv.C), pv.D, distance(pv.C, pv.D))

\* C11: when the circles give two candidates and lastValidC is set, the state the
\* solver returns has the candidate nearer to lastValidC
C11_NearestCandidate ==
    (~missingPivot(ui) /\ ui.initialInputAngle # Null) =>
        \A i \in DOMAIN last.calls :
            LET call == last.calls[i]
                candidates == candidatesAt(call.offset)
            IN  (call.state # Null /\ call.before # Null /\ Len(candidates) = 2) =>
                    \A j \in 1 .. 2 :
                        distance(call.state.C, call.before)
                            <= distance(candidates[j], call.before)

\* C12: circleCircleIntersection returns 2 points when |r1-r2| < d < r1+r2, 1 point when
\* d = r1+r2 or d = |r1-r2|, no point otherwise, and every point it returns is at r1
\* from the first centre and at r2 from the second
C12_IntersectionCount ==
    (kernel.op = "circleCircleIntersection" /\ kernel.done) =>
        LET d == distance(kernel.p1, kernel.p2)
            r1 == kernel.r1
            r2 == kernel.r2
        IN  /\ Len(kernel.result) =
                   IF Abs(r1 - r2) < d /\ d < r1 + r2 THEN 2
                   ELSE IF d = r1 + r2 \/ d = Abs(r1 - r2) THEN 1
                   ELSE 0
            /\ \A j \in DOMAIN kernel.result :
                   /\ kernel.result[j] # Null
                   /\ Abs(distance(kernel.result[j], kernel.p1) - r1) <= Tolerance
                   /\ Abs(distance(kernel.result[j], kernel.p2) - r2) <= Tolerance

\* the cross product (b - a) x (c - a) and the scalar product (b - a) . (c - a)
cross(a, b, c) == (b.x - a.x) * (c.y - a.y) - (b.y - a.y) * (c.x - a.x)

dot(a, b, c) == (b.x - a.x) * (c.x - a.x) + (b.y - a.y) * (c.y - a.y)

\* point r is a point of the closed segment ab: r = a + t (b - a) with 0 <= t <= 1
liesOn(r, a, b) ==
    IF a = b
    THEN r = a
    ELSE /\ cross(a, b, r) = 0
         /\ 0 <= dot(a, b, r)
         /\ dot(a, b, r) <= dot(a, b, b)

\* the closed segments p1q1 and p2q2 have a point in common: when their directions are
\* independent, the point p1 + t (q1 - p1) = p2 + u (q2 - p2) has 0 <= t, u <= 1 (t and
\* u by Cramer's rule); when they are not, an endpoint of one lies on the other
sharePoint(p1, q1, p2, q2) ==
    LET det == (q1.x - p1.x) * (q2.y - p2.y) - (q1.y - p1.y) * (q2.x - p2.x)
        tn == (p2.x - p1.x) * (q2.y - p2.y) - (p2.y - p1.y) * (q2.x - p2.x)
        un == (p2.x - p1.x) * (q1.y - p1.y) - (p2.y - p1.y) * (q1.x - p1.x)
        within(n) == IF det > 0 THEN 0 <= n /\ n <= det ELSE det <= n /\ n <= 0
    IN  IF det # 0
        THEN within(tn) /\ within(un)
        ELSE \/ liesOn(p2, p1, q1)
             \/ liesOn(q2, p1, q1)
             \/ liesOn(p1, p2, q2)
             \/ liesOn(q1, p2, q2)

\* C13: segmentsIntersect is true exactly when the closed segments share a point
\* (touching endpoints and collinear overlap included), and its result does not depend on
\* the order of the segments or of the endpoints of either segment
C13_SegmentsIntersect ==
    (kernel.op = "segmentsIntersect" /\ kernel.done) =>
        /\ kernel.result = sharePoint(kernel.p1, kernel.q1, kernel.p2, kernel.q2)
        /\ kernel.result = segmentsIntersect(kernel.p2, kernel.q2, kernel.p1, kernel.q1)
        /\ kernel.result = segmentsIntersect(kernel.q1, kernel.p1, kernel.p2, kernel.q2)
        /\ kernel.result = segmentsIntersect(kernel.p1, kernel.q1, kernel.q2, kernel.p2)

\* two collinear segments of positive length that overlap without a common endpoint,
\* found intersecting
C13_Witness ==
    /\ kernel.op = "segmentsIntersect"
    /\ kernel.done
    /\ kernel.result = TRUE
    /\ kernel.p1 # kernel.q1
    /\ kernel.p2 # kernel.q2
    /\ {kernel.p1, kernel.q1} \cap {kernel.p2, kernel.q2} = {}
    /\ cross(kernel.p1, kernel.q1, kernel.p2) = 0
    /\ cross(kernel.p1, kernel.q1, kernel.q2) = 0

\* C14: when l_ab, l_cd or l_bc of the reference is below 1 unit, the solver returns null
\* at every offset, in the calls the last event made and at the sampled offsets
C14_DegenerateFails ==
    (~missingPivot(ui) /\ ui.initialInputAngle # Null /\ ~NonDegenerate(ui.pivots)) =>
        /\ \A i \in DOMAIN last.calls : last.calls[i].state = Null
        /\ \A k \in -Samples .. Samples : solveAt(k * (Pi \div Samples)) = Null

\* a degenerate reference (a link shorter than 1 unit) captured in unlocked mode, on
\* which the range finder called the solver
C14_Witness ==
    /\ ~missingPivot(ui)
    /\ ui.initialInputAngle # Null
    /\ ~NonDegenerate(ui.pivots)
    /\ ui.hingeUnlocked
    /\ Len(last.calls) > 0

\* C15: an animate call whose solver call returns null leaves animatedState, the pose
\* that render draws, as it was before the call
C15_FailedAnimateKeepsPose ==
    [][(/\ last'.op = "animate"
        /\ Len(last'.calls) > 0
        /\ last'.calls[Len(last'.calls)].state = Null)
           => ui'.animatedState = ui.animatedState]_vars

\* calculateMechanism was the last call and went past its two guards
synthesized ==
    /\ calc.outcome.op = "calculateMechanism"
    /\ Len(calc.obj.positions) = 3
    /\ calc.obj.couplerPoints.A # Null
    /\ calc.obj.couplerPoints.B # Null

\* the world positions A1, A2, A3 and B1, B2, B3 of the two coupler points
worldPositions == transformCouplerToAllPositions(calc.obj)

\* three positions on one line, consecutive ones apart (each has a perpendicular bisector)
collinear(s) == cross(s[1], s[2], s[3]) = 0 /\ s[1] # s[2] /\ s[2] # s[3]

\* C16: when the world positions of either coupler point are collinear, calculateMechanism
\* fails and neither what it returns nor calculator.pivotPoints has a non-null pivot
C16_CollinearNoPartialPivot ==
    (synthesized /\ (collinear(worldPositions.A) \/ collinear(worldPositions.B))) =>
        /\ IF calc.outcome.kind = "returned"
           THEN /\ ~calc.outcome.value.validation.isValid
                /\ calc.outcome.value.pivotPoints.left = Null
                /\ calc.outcome.value.pivotPoints.right = Null
           ELSE calc.outcome.kind = "threw"
        /\ calc.obj.pivotPoints.left = Null
        /\ calc.obj.pivotPoints.right = Null

\* the pivot is a point at the same distance from the three positions
equidistant(pivot, s) ==
    /\ pivot \notin {Null, NaNPoint}
    /\ \A i, j \in 1 .. 3 :
           Abs(calculateDistance(pivot, s[i]) - calculateDistance(pivot, s[j])) <= Tolerance

\* C17: the pivot calculateMechanism computes for a coupler point with non-collinear
\* world positions is at the same distance from the three of them, and the link lengths
\* it returns are these distances
C17_PivotIsCircumcentre ==
    synthesized =>
        /\ cross(worldPositions.A[1], worldPositions.A[2], worldPositions.A[3]) # 0
               => equidistant(calc.obj.pivotPoints.left, worldPositions.A)
        /\ cross(worldPositions.B[1], worldPositions.B[2], worldPositions.B[3]) # 0
               => equidistant(calc.obj.pivotPoints.right, worldPositions.B)
        /\ calc.outcome.kind = "returned" =>
               /\ calc.outcome.value.pivotPoints = calc.obj.pivotPoints
               /\ calc.outcome.value.linkLengths.inputLink =
                      calculateDistance(calc.obj.pivotPoints.left, worldPositions.A[1])
               /\ calc.outcome.value.linkLengths.outputLink =
                      calculateDistance(calc.obj.pivotPoints.right, worldPositions.B[1])

\* a synthesis from non-collinear positions of both coupler points, rotated between the
\* poses, that returned its two pivots
C17_Witness ==
    /\ synthesized
    /\ calc.outcome.kind = "returned"
    /\ cross(worldPositions.A[1], worldPositions.A[2], worldPositions.A[3]) # 0
    /\ cross(worldPositions.B[1], worldPositions.B[2], worldPositions.B[3]) # 0
    /\ calc.obj.positions[2].rotation # 0
    /\ calc.obj.pivotPoints.left \notin {Null, NaNPoint}
    /\ calc.obj.pivotPoints.right \notin {Null, NaNPoint}

\* C18: when calculateMechanism found both pivots it returns them, with
\* validation.isValid true and the calculator's isValid true, whatever the warnings
C18_WarningsDoNotInvalidate ==
    (synthesized /\ calc.obj.pivotPoints.left # Null /\ calc.obj.pivotPoints.right # Null) =>
        /\ calc.outcome.kind = "returned"
        /\ calc.outcome.value.pivotPoints.left = calc.obj.pivotPoints.left
        /\ calc.outcome.value.pivotPoints.right = calc.obj.pivotPoints.right
        /\ calc.outcome.value.validation.isValid
        /\ calc.outcome.value.validation.errors = <<>>
        /\ calc.obj.isValid

\* a synthesis that found both pivots and returned them with a warning
C18_Witness ==
    /\ synthesized
    /\ calc.outcome.kind = "returned"
    /\ calc.obj.pivotPoints.left # Null
    /\ calc.obj.pivotPoints.right # Null
    /\ Len(calc.outcome.value.validation.warnings) > 0
    /\ calc.obj.isValid

\* C19: setConfiguration(getConfiguration()) leaves the box dimensions and the pivots as
\* they were, and importing the exported file restores the box dimensions and the pivots
\* the object had when it was exported
C19_RoundTrip ==
    [][/\ last'.op = "roundTrip" =>
              /\ ui'.boxDimensions = ui.boxDimensions
              /\ ui'.pivots = ui.pivots
       /\ last'.op = "importConfiguration" =>
              /\ ui'.boxDimensions = page.exported.boxDimensions
              /\ ui'.pivots = page.exported.pivots]_vars

closedLidRect(obj) ==
    [minX |-> obj.lid.center.x - RDiv(obj.lid.lidWidth, 2),
     maxX |-> obj.lid.center.x + RDiv(obj.lid.lidWidth, 2),
     minY |-> obj.lid.center.y - RDiv(obj.lid.lidHeight, 2),
     maxY |-> obj.lid.center.y + RDiv(obj.lid.lidHeight, 2)]

\* C21: whenever the object has its four pivots, A and D lie inside the base rectangle
\* and, once reset has placed the lid, B and C lie inside the closed lid's rectangle
C21_PivotsInsideBoxes ==
    ~missingPivot(ui) =>
        /\ isInside(ui.pivots.A, getBaseRect(ui))
        /\ isInside(ui.pivots.D, getBaseRect(ui))
        /\ ui.lid # Null =>
               /\ isInside(ui.pivots.B, closedLidRect(ui))
               /\ isInside(ui.pivots.C, closedLidRect(ui))

\* C22: every state the solver returned in locked mode has the input link AB and the
\* output link CD crossed and the coupler BC clear of the ground link AD
C22_CouplerClearOfGround ==
    ~ui.hingeUnlocked =>
        \A i \in 1 .. Len(last.calls) :
            LET state == last.calls[i].state
            IN  state # Null =>
                    /\ segmentsIntersect(state.A, state.B, state.C, state.D)
                    /\ ~segmentsIntersect(state.B, state.C, state.A, state.D)

\* C23: in the probes of a range search, in either direction, the probe after one the
\* solver succeeded at lies farther from 0 than it, and the probe after one the solver
\* failed at lies nearer to 0 than it
C23_SearchMovesOutwardOnSuccess ==
    (last.finder # Null /\ last.op \in {"reset", "mouseup", "setHingeUnlocked",
                                         "setConfiguration"}) =>
        \A i \in 1 .. Len(last.calls) - 1 :
            LET probe == last.calls[i]
                next == last.calls[i + 1]
            IN  (probe.offset > 0) = (next.offset > 0) =>
                    IF probe.state # Null
                    THEN Abs(next.offset) > Abs(probe.offset)
                    ELSE Abs(next.offset) < Abs(probe.offset)

\* the solver calls of the last event made at an offset of the given sign
probesToward(direction) ==
    {i \in 1 .. Len(last.calls) : last.calls[i].offset * direction > 0}

\* C24: calculateAngleLimits returns, after at most 100 solver calls in each direction,
\* limits of magnitude below 2 pi in locked mode and below 4 pi in unlocked mode
C24_SearchIsBounded ==
    last.finder # Null =>
        /\ last.op \in {"reset", "mouseup", "setHingeUnlocked", "setConfiguration"} =>
               /\ Cardinality(probesToward(1)) <= 100
               /\ Cardinality(probesToward(-1)) <= 100
        /\ Abs(ui.angleLimits.min) < (IF ui.hingeUnlocked THEN 2 * TwoPi ELSE TwoPi)
        /\ Abs(ui.angleLimits.max) < (IF ui.hingeUnlocked THEN 2 * TwoPi ELSE TwoPi)

\* a search in unlocked mode that returned a limit beyond one full turn
C24_Witness ==
    /\ last.op = "setHingeUnlocked"
    /\ last.finder # Null
    /\ ui.hingeUnlocked
    /\ Abs(ui.angleLimits.max) > TwoPi
    /\ Cardinality(probesToward(1)) > 10

\* C25: clampToValidPct leaves lastValidC as it found it, on each of its three return
\* paths and however many solver calls it made.
C25_ClampRestoresLastValidC ==
    page.clamp # Null => page.clamp.after = page.clamp.before

\* a slider input whose search ended by bisection, one of its solver calls having
\* changed lastValidC
C25_Witness ==
    /\ page.clamp # Null
    /\ page.clamp.path = "bisection"
    /\ Len(page.clamp.probes) > 5
    /\ \E k \in 1 .. Len(page.clamp.probes) :
           page.clamp.probes[k].after # page.clamp.before

\* C26: after a solver call that returned a state, lastValidC is the C of that state
C26_LastValidCIsReturnedC ==
    \A i \in 1 .. Len(last.calls) :
        last.calls[i].state # Null => last.calls[i].after = last.calls[i].state.C

\* a solver call that returned a state whose C is not the lastValidC it was called with
C26_Witness ==
    \E i \in 1 .. Len(last.calls) :
        /\ last.calls[i].state # Null
        /\ last.calls[i].before # Null
        /\ last.calls[i].before # last.calls[i].state.C
        /\ last.calls[i].after = last.calls[i].state.C

\* C27: when an event has run the solver, the reference the solver used is the one
\* captured from the pivots it read: initialInputAngle is the bearing from A to B and
\* initialOrientations are the orientation signs of the pivots
C27_ReferenceMatchesPivots ==
    (/\ last.op \in {"mousedown", "mousemove", "mouseup", "slider", "reset",
                     "setConfiguration"}
     /\ Len(last.calls) > 0
     /\ ~missingPivot(ui)) =>
        /\ ui.initialInputAngle
               = [rad |-> Atan2(ui.pivots.B.y - ui.pivots.A.y,
                                ui.pivots.B.x - ui.pivots.A.x)]
        /\ ui.initialOrientations = storeInitialOrientations(ui.pivots)

\* C28: when one of the percentages the slider listener tried is valid, the percentage
\* it writes back is valid too: the animate call that follows returns a state
C28_ClampedPctIsValid ==
    (/\ page.clamp # Null
     /\ \E k \in 1 .. Len(page.clamp.probes) : page.clamp.probes[k].state # Null) =>
        page.clamp.state # Null

\* C29: a setLidPositions, setCouplerPoints or reset call that returns leaves isValid
\* false; a setLidPositions call that throws leaves the object as it was; and isValid
\* is true after a call only if that call was a calculateMechanism that returned with
\* both pivots, or a throwing setLidPositions on an object that was valid
C29_ValidOnlyAfterCalculation ==
    [][LET o == calc'.outcome
       IN  /\ (o.op \in {"setLidPositions", "setCouplerPoints", "reset"}
                   /\ o.kind = "returned") => ~calc'.obj.isValid
           /\ (o.op = "setLidPositions" /\ o.kind = "threw") =>
                  /\ calc'.obj.positions = calc.obj.positions
                  /\ calc'.obj.isValid = calc.obj.isValid
           /\ calc'.obj.isValid =>
                  \/ /\ o.op = "calculateMechanism"
                     /\ o.kind = "returned"
                     /\ o.value.pivotPoints.left # Null
                     /\ o.value.pivotPoints.right # Null
                  \/ /\ o.op = "setLidPositions"
                     /\ o.kind = "threw"
                     /\ calc.obj.isValid]_vars

\* a setLidPositions call that threw on a calculator holding a valid mechanism
C29_Witness ==
    /\ calc.outcome.op = "setLidPositions"
    /\ calc.outcome.kind = "threw"
    /\ Len(calc.obj.positions) = 3
    /\ calc.obj.isValid

\* C30: calculateMechanism does not return validation.isValid = true with a pivot whose
\* coordinates are NaN
C30_NoUndefinedPivotReportedValid ==
    (/\ synthesized
     /\ calc.outcome.kind = "returned"
     /\ calc.outcome.value.validation.isValid) =>
        /\ calc.outcome.value.pivotPoints.left # NaNPoint
        /\ calc.outcome.value.pivotPoints.right # NaNPoint

====
